---- MODULE Spec2Model ----
(***************************************************************************)
(* Ingestion, change detection and index persistence of biz-playbook-rag.  *)
(*                                                                         *)
(* State: the ./docs directory, the three persisted artifacts              *)
(* (data/vectors.json, data/docs.json, data/meta.json), the ingestion      *)
(* script processes (scripts/ingest-enhanced, started by hand or by the    *)
(* /api/ingest and /api/ingest-single handlers, each in its own OS         *)
(* process), a query-side reader (loadVectorStore) and the result of the   *)
(* /api/document-status handler.                                           *)
(*                                                                         *)
(* Abstractions.  A file's text is one of a few named contents; the        *)
(* chunker is represented by the number of chunks it yields for each of    *)
(* them and a chunk's text by the pair (content, part).  md5 is taken to   *)
(* be collision free: calculateChecksum wraps its argument.  An embedding  *)
(* vector is represented by the text it was computed from.                 *)
(***************************************************************************)
EXTENDS Integers, Sequences, FiniteSets, TLC

\* Cap on the changes made to ./docs (uploads, edits, deletions).
MaxChanges == 1

\* Cap on the ingestion runs started.
MaxStarts == 2

\* Ingestion processes that may be alive at the same time.
Runs == {"r1", "r2"}

\* The names a directory entry of ./docs may have, in readdir order.
Files == <<"a.txt", "b.md", "c.pdf", "d.doc">>

FileNames == {Files[i] : i \in DOMAIN Files}

Extension == [f \in FileNames |->
                CASE f = "a.txt" -> "txt"
                  [] f = "b.md"  -> "md"
                  [] f = "c.pdf" -> "pdf"
                  [] OTHER       -> "doc"]

\* The texts a file may hold: "" is an empty (or whitespace-only) text.
Contents == {"", "one", "two"}

\* Chunks that chunkTextEnhanced(content, 800, 120) yields.
NumChunks == [c \in Contents |-> CASE c = "" -> 0 [] c = "one" -> 1 [] OTHER -> 2]

\* stats.size of a file holding the content.
ByteSize == [c \in Contents |-> CASE c = "" -> 0 [] c = "one" -> 10 [] OTHER -> 20]

SeqToSet(s) == {s[i] : i \in DOMAIN s}

NoDups(s) == \A i, j \in DOMAIN s : i # j => s[i] # s[j]

\* ------------------------------------------------------------------------
\* Strings that are hashed: a file's text, or the `${filename}-${size}-${mtime}`
\* string built for a PDF.  The two kinds never coincide.
TextStr(t) == [kind |-> "text", s |-> t, size |-> 0, mtime |-> 0]

StatStr(f, size, mtime) == [kind |-> "stat", s |-> f, size |-> size, mtime |-> mtime]

calculateChecksum(str) == [md5 |-> str]

\* chunkTextEnhanced as used by saveVectorStore: the chunk texts of a content.
DocChunks(content) == [i \in 1..NumChunks[content] |-> [of |-> content, part |-> i]]

\* embed of one text.
embed(text) == [vecOf |-> text]

\* ------------------------------------------------------------------------
\* chunkTextEnhanced
\*
\* A text is the sequence of the parts that split(/[.!?]+/) yields over all its
\* paragraphs: tokens is countTokens of the part (0 for a part that trims to
\* nothing) and brk tells that the paragraph ends after it.  A paragraph made
\* of one such empty part is a whitespace-only paragraph.  The chunk in
\* progress is a sequence of pieces: a token of a sentence (4 characters, the
\* ratio the code assumes), the ". " appended after a sentence and the "\n\n"
\* appended after a paragraph (2 characters each), or the fragment of a token
\* that a slice has cut.  Every piece encodes to one token.

\* The most parts a text holds.
MaxSentences == 3

\* The values of maxTokens.
TokenLimits == {2, 3}

Piece(kind, sent, seed) == [kind |-> kind, sent |-> sent, seed |-> seed]

Width(piece) == IF piece.kind = "tok" THEN 4 ELSE 2

countTokens(pieces) == Len(pieces)

\* The pieces of sentence number sent.
SentencePieces(sent, tokens) == [i \in 1..tokens |-> Piece("tok", sent, FALSE)]

\* The last w characters of the chunk, marked as seeded overlap.
RECURSIVE sliceEnd(_, _)
sliceEnd(chunk, w) ==
  IF chunk = <<>> \/ w <= 0 THEN <<>>
  ELSE LET last  == chunk[Len(chunk)]
           front == SubSeq(chunk, 1, Len(chunk) - 1)
       IN  IF Width(last) <= w
           THEN Append(sliceEnd(front, w - Width(last)), Piece(last.kind, last.sent, TRUE))
           ELSE <<Piece("part", last.sent, TRUE)>>

\* currentChunk.slice(-overlapTokens * 4); slice(-0) is the whole string.
overlapText(currentChunk, overlapTokens) ==
  IF overlapTokens = 0
  THEN [i \in DOMAIN currentChunk |-> Piece(currentChunk[i].kind, currentChunk[i].sent, TRUE)]
  ELSE sliceEnd(currentChunk, overlapTokens * 4)

\* String.trim: the paragraph breaks at both ends go.
trim(pieces) ==
  LET solid == {i \in DOMAIN pieces : pieces[i].kind # "brk"}
  IN  IF solid = {} THEN <<>>
      ELSE SubSeq(pieces, CHOOSE i \in solid : \A j \in solid : i <= j,
                          CHOOSE i \in solid : \A j \in solid : j <= i)

\* The part belongs to a paragraph that trims to nothing (skipped whole).
InBlankParagraph(text, i) ==
  /\ text[i].tokens = 0
  /\ i = 1 \/ text[i - 1].brk
  /\ i = Len(text) \/ text[i].brk

\* A plausible slip: the budget test looks at the chunk in progress only.
overflowsLate(currentTokens, sentenceTokens, maxTokens, currentChunk) ==
  currentTokens > maxTokens /\ Len(currentChunk) > 0

\* currentTokens + sentenceTokens > maxTokens && currentChunk.length > 0
overflows(currentTokens, sentenceTokens, maxTokens, currentChunk) ==
  currentTokens + sentenceTokens > maxTokens /\ Len(currentChunk) > 0

\* A plausible slip: the new chunk starts from the overlap alone.
startChunkWithoutSentence(overlap, sentence) == overlap

\* currentChunk = overlapText + sentence + ". "
startChunk(overlap, sentence) ==
  overlap \o sentence \o <<Piece("dot", sentence[1].sent, FALSE)>>

\* The loops over the paragraphs and their sentences, from part i on.
RECURSIVE chunkFrom(_, _, _, _, _)
chunkFrom(text, i, st, maxTokens, overlapTokens) ==
  IF i > Len(text) THEN st
  ELSE
    LET endsParagraph == i = Len(text) \/ text[i].brk
        sentence      == SentencePieces(i, text[i].tokens)
        afterSentence ==
          IF text[i].tokens = 0 THEN st
          ELSE IF overflows(st.currentTokens, text[i].tokens, maxTokens, st.currentChunk)
          THEN LET overlap == overlapText(st.currentChunk, overlapTokens)
               IN  [chunks |-> Append(st.chunks, [text |-> trim(st.currentChunk),
                                                  tokens |-> st.currentTokens]),
                    currentChunk |-> startChunk(overlap, sentence),
                    currentTokens |-> countTokens(overlap) + text[i].tokens]
          ELSE [st EXCEPT !.currentChunk =
                            @ \o sentence \o <<Piece("dot", i, FALSE)>>,
                          !.currentTokens = @ + text[i].tokens]
        afterParagraph ==
          IF endsParagraph
          THEN [afterSentence EXCEPT !.currentChunk = Append(@, Piece("brk", 0, FALSE))]
          ELSE afterSentence
    IN  IF InBlankParagraph(text, i)
        THEN chunkFrom(text, i + 1, st, maxTokens, overlapTokens)
        ELSE chunkFrom(text, i + 1, afterParagraph, maxTokens, overlapTokens)

chunkTextEnhanced(text, maxTokens, overlapTokens) ==
  LET st == chunkFrom(text, 1, [chunks |-> <<>>, currentChunk |-> <<>>, currentTokens |-> 0],
                      maxTokens, overlapTokens)
  IN  IF trim(st.currentChunk) # <<>>
      THEN Append(st.chunks, [text |-> trim(st.currentChunk), tokens |-> st.currentTokens])
      ELSE st.chunks

\* ------------------------------------------------------------------------
\* similaritySearchWithScore
\*
\* Numbers are exact: a vector has integer components in units of 1/Unit, so
\* that the vectors the embedder yields (normalize: true) have length Unit; a
\* cosine is counted in units of 1/Unit^2, a text score in thousandths, and a
\* combined score or a distance is a numerator over the denominator common to
\* the search.  The 1e-12 and 1e-9 added to the denominators are left out: they
\* only make a quotient 0 where its denominator would be 0.

\* The length of a normalized vector.
Unit == 5

\* The most chunks an index holds.
MaxChunks == 3

\* What arithmetic on an undefined component yields.
NaN == [nan |-> TRUE, val |-> 0]

Num(n) == [nan |-> FALSE, val |-> n]

Min(a, b) == IF a <= b THEN a ELSE b

MinOf(S) == CHOOSE x \in S : \A y \in S : x <= y

MaxOf(S) == CHOOSE x \in S : \A y \in S : y <= x

\* Math.sqrt, exact on the squares.
Sqrt(n) == CHOOSE r \in 0..n : r * r <= n /\ n < (r + 1) * (r + 1)

\* The sum over i < a.length of x[i] * y[i], components present.
RECURSIVE SumProducts(_, _, _)
SumProducts(x, y, n) == IF n = 0 THEN 0 ELSE x[n] * y[n] + SumProducts(x, y, n - 1)

\* cosSim: the loop runs over a; a missing b[i] is undefined and makes the
\* sums NaN, the components of b beyond a.length are not looked at.
cosSim(a, b) ==
  IF Len(b) < Len(a) THEN NaN
  ELSE LET norms == Sqrt(SumProducts(a, a, Len(a))) * Sqrt(SumProducts(b, b, Len(a)))
       IN  IF norms = 0 THEN Num(0)
           ELSE Num((Unit * Unit * SumProducts(a, b, Len(a))) \div norms)

\* The words of the model, their lengths, and String.includes between them.
Words == {"", "ab", "cash", "cashflow", "plan"}

WordLength == [w \in Words |->
                 CASE w = "" -> 0 [] w = "ab" -> 2 [] w = "cashflow" -> 8 [] OTHER -> 4]

Includes(w, word) == w = word \/ word = "" \/ (w = "cashflow" /\ word = "cash")

\* (wordCount / textLength) * Math.log(1 + textLength / wordCount), in
\* thousandths, for the text lengths of the model.
RelevanceTerm(wordCount, textLength) ==
  CASE wordCount = textLength -> 693
    [] wordCount = 1 /\ textLength = 2 -> 549
    [] wordCount = 1 /\ textLength = 3 -> 462
    [] wordCount = 2 /\ textLength = 3 -> 611

\* A plausible slip: the words shorter than 3 characters are scored too.
RECURSIVE calculateTextRelevanceNoSkip(_, _)
calculateTextRelevanceNoSkip(queryWords, textWords) ==
  IF queryWords = <<>> THEN 0
  ELSE LET word      == Head(queryWords)
           wordCount == Cardinality({i \in DOMAIN textWords : Includes(textWords[i], word)})
           rest      == calculateTextRelevanceNoSkip(Tail(queryWords), textWords)
       IN  IF wordCount > 0 THEN RelevanceTerm(wordCount, Len(textWords)) + rest
           ELSE rest

\* calculateTextRelevance over split(/\s+/) of the query and of the text.
RECURSIVE calculateTextRelevance(_, _)
calculateTextRelevance(queryWords, textWords) ==
  IF queryWords = <<>> THEN 0
  ELSE LET word      == Head(queryWords)
           wordCount == Cardinality({i \in DOMAIN textWords : Includes(textWords[i], word)})
           rest      == calculateTextRelevance(Tail(queryWords), textWords)
       IN  IF WordLength[word] < 3 THEN rest
           ELSE IF wordCount > 0 THEN RelevanceTerm(wordCount, Len(textWords)) + rest
           ELSE rest

\* A plausible slip: the scored chunks are left in the order of the ids.
sortByScoreMissing(scored) == scored

\* A plausible slip: the comparator is a.score - b.score, ascending.
RECURSIVE sortByScoreAscending(_)
sortByScoreAscending(scored) ==
  IF scored = <<>> THEN <<>>
  ELSE LET front  == sortByScoreAscending(SubSeq(scored, 1, Len(scored) - 1))
           last   == scored[Len(scored)]
           before == {i \in DOMAIN front :
                        front[i].score.nan \/ last.score.nan
                          \/ front[i].score.val <= last.score.val}
           at     == IF before = {} THEN 0 ELSE MaxOf(before)
       IN  SubSeq(front, 1, at) \o <<last>> \o SubSeq(front, at + 1, Len(front))

\* A plausible slip: a sort that is not stable, an entry going before the
\* entries of equal score that precede it.
RECURSIVE sortByScoreUnstable(_)
sortByScoreUnstable(scored) ==
  IF scored = <<>> THEN <<>>
  ELSE LET front  == sortByScoreUnstable(SubSeq(scored, 1, Len(scored) - 1))
           last   == scored[Len(scored)]
           before == {i \in DOMAIN front :
                        ~front[i].score.nan /\ ~last.score.nan
                          /\ front[i].score.val > last.score.val}
           at     == IF before = {} THEN 0 ELSE MaxOf(before)
       IN  SubSeq(front, 1, at) \o <<last>> \o SubSeq(front, at + 1, Len(front))

\* scored.sort((a, b) => b.score - a.score): stable, descending; a NaN
\* difference compares as equal.
RECURSIVE sortByScore(_)
sortByScore(scored) ==
  IF scored = <<>> THEN <<>>
  ELSE LET front  == sortByScore(SubSeq(scored, 1, Len(scored) - 1))
           last   == scored[Len(scored)]
           before == {i \in DOMAIN front :
                        front[i].score.nan \/ last.score.nan
                          \/ front[i].score.val >= last.score.val}
           at     == IF before = {} THEN 0 ELSE MaxOf(before)
       IN  SubSeq(front, 1, at) \o <<last>> \o SubSeq(front, at + 1, Len(front))

\* A plausible slip: the minimum is taken by a reduce without initial value,
\* which throws over no score at all.
searchThrowsOnNoScore(ids, docsMap) ==
  ids = {} \/ \E id \in ids : id \notin DOMAIN docsMap

\* The search throws a TypeError on docsMap[id].text when docs.json holds no
\* entry for an id; Math.min and Math.max of no argument do not throw.
searchThrows(ids, docsMap) == \E id \in ids : id \notin DOMAIN docsMap

\* similaritySearchWithScore(query, k) of the handle over ids, vectors and
\* docsMap; q is the embedding of the query.  The result holds, per entry, the
\* id of the document and the distance 1 - score.
similaritySearchWithScore(vectors, docsMap, query, q, k) ==
  LET ids      == DOMAIN vectors
      vecScore == [id \in ids |-> cosSim(q, vectors[id])]
      txtScore == [id \in ids |-> calculateTextRelevance(query, docsMap[id].text)]
      anyNaN   == \E id \in ids : vecScore[id].nan
      vecVals  == {vecScore[id].val : id \in ids}
      txtVals  == {txtScore[id] : id \in ids}
      rangeVec == IF MaxOf(vecVals) = MinOf(vecVals) THEN 1 ELSE MaxOf(vecVals) - MinOf(vecVals)
      rangeTxt == IF MaxOf(txtVals) = MinOf(txtVals) THEN 1 ELSE MaxOf(txtVals) - MinOf(txtVals)
      den      == IF ids = {} \/ anyNaN THEN 1 ELSE 10 * rangeVec * rangeTxt
      combined(id) ==
        IF anyNaN THEN NaN
        ELSE Num(7 * (vecScore[id].val - MinOf(vecVals)) * rangeTxt
                 + 3 * (txtScore[id] - MinOf(txtVals)) * rangeVec)
      scored   == [id \in ids |-> [id |-> id, score |-> combined(id)]]
      sorted   == sortByScore(scored)
  IN  [i \in 1..Min(k, Len(sorted)) |->
         [id |-> sorted[i].id,
          distance |-> [nan |-> sorted[i].score.nan,
                        num |-> den - sorted[i].score.val,
                        den |-> den]]]

\* ------------------------------------------------------------------------
\* checkDocumentStatus

\* The sources of the metadata records, in order of first occurrence (the key
\* order of the existingDocs Map).
RECURSIVE sourceOrder(_)
sourceOrder(meta) ==
  IF meta = <<>> THEN <<>>
  ELSE LET pre  == sourceOrder(SubSeq(meta, 1, Len(meta) - 1))
           last == meta[Len(meta)].source
       IN  IF last \in SeqToSet(pre) THEN pre ELSE Append(pre, last)

\* existingDocs: source -> the set of checksums recorded on its chunks.
existingDocs(meta) ==
  [s \in {meta[i].source : i \in DOMAIN meta} |->
     {meta[i].checksum : i \in {j \in DOMAIN meta : meta[j].source = s}}]

\* readdirSync(docsDir).filter(.pdf | .txt | .md)
listFiles(dir) ==
  LET keep(f) == f \in DOMAIN dir /\ Extension[f] \in {"pdf", "txt", "md"}
  IN  SelectSeq(Files, keep)

\* The fingerprint the status check computes for a listed file.
currentChecksum(dir, f) ==
  IF Extension[f] = "pdf"
  THEN calculateChecksum(StatStr(f, dir[f].size, dir[f].mtime))
  ELSE calculateChecksum(TextStr(dir[f].text))

\* A plausible slip: a file whose read fails is classified like a readable one
\* that is not recorded.
classifyFileNoCatch(existing, dir, f, fail) ==
  IF f \in DOMAIN existing
  THEN IF f \notin fail /\ currentChecksum(dir, f) \in existing[f]
       THEN "unchanged" ELSE "modified"
  ELSE "new"

\* The body of files.forEach: fail holds the files whose read or stat throws.
classifyFile(existing, dir, f, fail) ==
  IF f \in fail THEN "modified"
  ELSE IF f \in DOMAIN existing
       THEN IF currentChecksum(dir, f) \in existing[f]
            THEN "unchanged" ELSE "modified"
       ELSE "new"

\* A plausible slip: every recorded source is reported deleted.
deletedFilesAll(meta, files) == sourceOrder(meta)

\* existingDocs.forEach: the recorded sources that are not listed.
deletedFiles(meta, files) ==
  LET gone(s) == s \notin SeqToSet(files)
  IN  SelectSeq(sourceOrder(meta), gone)

checkDocumentStatus(meta, dir, fail) ==
  LET existing == existingDocs(meta)
      files    == listFiles(dir)
      is(c)    == LET t(f) == classifyFile(existing, dir, f, fail) = c
                  IN  SelectSeq(files, t)
  IN  [unchanged |-> is("unchanged"),
       modified  |-> is("modified"),
       new       |-> is("new"),
       deleted   |-> deletedFiles(meta, files)]

\* ------------------------------------------------------------------------
\* The ingest-enhanced script and saveVectorStore

\* The files the script goes on to read; <<>> makes it exit before reading.
\* target is the --file argument, "*" when there is none.  A plausible slip:
\* the full mode also re-reads the unchanged files.
filesToProcessAll(status, target) ==
  IF target # "*"
  THEN IF target \in SeqToSet(status.new) \cup SeqToSet(status.modified)
       THEN <<target>> ELSE <<>>
  ELSE status.unchanged \o status.new \o status.modified

filesToProcess(status, target) ==
  IF target # "*"
  THEN IF target \in SeqToSet(status.new) \cup SeqToSet(status.modified)
       THEN <<target>> ELSE <<>>
  ELSE status.new \o status.modified

\* How the script ends when it does not reach saveVectorStore.
exitOutcome(status, target, toProcess, documents) ==
  IF toProcess = <<>>
  THEN IF target = "*" \/ target \in SeqToSet(status.unchanged)
       THEN "skipped" ELSE "notfound"
  ELSE IF documents = <<>> THEN "nodocs" ELSE "none"

\* A plausible slip: the first failing read ends the loop, and the files after
\* it are not read.
readDocumentsAbort(dir, toProcess, rfail) ==
  LET stop == IF \E i \in DOMAIN toProcess : toProcess[i] \in rfail
              THEN CHOOSE i \in DOMAIN toProcess :
                     /\ toProcess[i] \in rfail
                     /\ \A j \in 1..(i - 1) : toProcess[j] \notin rfail
              ELSE Len(toProcess) + 1
  IN  [i \in 1..(stop - 1) |-> [pageContent |-> dir[toProcess[i]].text, source |-> toProcess[i]]]

\* The read loop: rfail holds the files whose read or PDF extraction throws.
readDocuments(dir, toProcess, rfail) ==
  LET ok(f) == f \notin rfail
      read  == SelectSeq(toProcess, ok)
  IN  [i \in 1..Len(read) |-> [pageContent |-> dir[read[i]].text, source |-> read[i]]]

\* A plausible slip: the id counter starts again with every document.
RECURSIVE processDocsPerDocument(_, _)
processDocsPerDocument(docs, idCounter) ==
  IF docs = <<>> THEN <<>>
  ELSE LET doc    == Head(docs)
           chunks == DocChunks(doc.pageContent)
           these  == [i \in 1..Len(chunks) |->
                        [pageContent |-> chunks[i],
                         metadata |-> [id          |-> i,
                                       source      |-> doc.source,
                                       chunkIndex  |-> i - 1,
                                       totalChunks |-> Len(chunks),
                                       checksum    |->
                                         calculateChecksum(TextStr(doc.pageContent))]]]
       IN  these \o processDocsPerDocument(Tail(docs), 0)

\* The processedDocs of saveVectorStore: ids count on across the documents.
RECURSIVE processDocs(_, _)
processDocs(docs, idCounter) ==
  IF docs = <<>> THEN <<>>
  ELSE LET doc    == Head(docs)
           chunks == DocChunks(doc.pageContent)
           these  == [i \in 1..Len(chunks) |->
                        [pageContent |-> chunks[i],
                         metadata |-> [id          |-> idCounter + i,
                                       source      |-> doc.source,
                                       chunkIndex  |-> i - 1,
                                       totalChunks |-> Len(chunks),
                                       checksum    |->
                                         calculateChecksum(TextStr(doc.pageContent))]]]
       IN  these \o processDocs(Tail(docs), idCounter + Len(chunks))

\* The records written to meta.json: processedDocs.map(doc => doc.metadata).
metaRecords(processed) == [i \in DOMAIN processed |-> processed[i].metadata]

\* loadMeta: a missing or unreadable meta.json reads as no record.
loadMeta(file) == IF file.exists THEN file.records ELSE <<>>

EmptyStatus == [unchanged |-> <<>>, modified |-> <<>>, new |-> <<>>, deleted |-> <<>>]

IdleRun == [pc |-> "idle", outcome |-> "none", target |-> "*", status |-> EmptyStatus,
            documents |-> <<>>, failed |-> {}, startClock |-> 0]

\* ------------------------------------------------------------------------
VARIABLES
  docsDir,      \* ./docs: present file name -> [text, size, mtime]
  clock,        \* changes made to ./docs so far; the mtime of the next write
  vectorsFile,  \* data/vectors.json: {ids, vectors}
  docsFile,     \* data/docs.json: id -> {text, metadata, vector}
  metaFile,     \* data/meta.json: the metadata records
  runs,         \* the ingestion processes
  starts,       \* ingestion runs started so far
  reader,       \* a caller of loadVectorStore
  statusOut,    \* the last answer of /api/document-status
  chunking,     \* a call of chunkTextEnhanced: its arguments and its result
  asking,       \* a POST /api/ask: the request, the index it finds, its response
  embedding,    \* embeddings.js: the module's embedder and the calls of embed
  tokenChunking \* a call of chunkText of chunker.js: its arguments and its loop

vars == <<docsDir, clock, vectorsFile, docsFile, metaFile, runs, starts, reader, statusOut,
          chunking, asking, embedding, tokenChunking>>

\* A directory entry; the mtime is kept for the files whose stat is read.
Entry(f, t, now) ==
  [text |-> t, size |-> ByteSize[t], mtime |-> IF Extension[f] = "pdf" THEN now ELSE 0]

\* The ./docs the pipeline starts from: two text files, nothing ingested yet.
SeededDir == [f \in {"a.txt", "b.md"} |-> Entry(f, IF f = "b.md" THEN "two" ELSE "one", 0)]

SeededWithPdf == [f \in {"a.txt", "b.md", "c.pdf"} |->
                    Entry(f, IF f = "b.md" THEN "two" ELSE "one", 0)]

NoStatus == [status |-> EmptyStatus, fail |-> {}, fresh |-> FALSE]

\* No call of the chunker, no request, outside the specifications about them.
NoChunking == [text |-> <<>>, maxTokens |-> 0, overlapTokens |-> 0, chunks |-> <<>>,
               done |-> FALSE]

NoAsking == [pc |-> "none"]

NoEmbedding == [embedder |-> 0, created |-> 0, calls |-> <<>>]

NoTokenChunking == [pc |-> "none"]

IdleReader == [pc |-> "idle", ids |-> <<>>, vectors |-> <<>>, docs |-> <<>>]

FailedReader == [pc |-> "failed", ids |-> <<>>, vectors |-> <<>>, docs |-> <<>>]

Init ==
  /\ docsDir \in {SeededDir, SeededWithPdf}
  /\ clock = 0
  /\ vectorsFile = [exists |-> FALSE, ids |-> <<>>, vectors |-> <<>>]
  /\ docsFile = [exists |-> FALSE, map |-> <<>>]
  /\ metaFile = [exists |-> FALSE, records |-> <<>>]
  /\ runs = [r \in Runs |-> IdleRun]
  /\ starts = 0
  /\ reader = IdleReader
  /\ statusOut = NoStatus
  /\ chunking = NoChunking
  /\ asking = NoAsking
  /\ embedding = NoEmbedding
  /\ tokenChunking = NoTokenChunking

\* upload.ts copies a file into ./docs under its original name; editing a file
\* in place has the same effect.
Upload(f, t) ==
  /\ clock < MaxChanges
  /\ f \in DOMAIN docsDir => docsDir[f].text # t \/ Extension[f] = "pdf"
  /\ clock' = clock + 1
  /\ docsDir' = [g \in DOMAIN docsDir \cup {f} |->
                   IF g = f THEN Entry(f, t, clock + 1) ELSE docsDir[g]]
  /\ UNCHANGED <<vectorsFile, docsFile, metaFile, runs, starts, reader, statusOut, chunking, asking, embedding, tokenChunking>>

\* delete-document.ts unlinks the file and touches nothing else.
DeleteDocument(f) ==
  /\ clock < MaxChanges
  /\ f \in DOMAIN docsDir
  /\ clock' = clock + 1
  /\ docsDir' = [g \in DOMAIN docsDir \ {f} |-> docsDir[g]]
  /\ UNCHANGED <<vectorsFile, docsFile, metaFile, runs, starts, reader, statusOut, chunking, asking, embedding, tokenChunking>>

\* What a run cannot read: an unreadable text file throws in the status check
\* and in the read loop alike (both call readFileSync); a PDF is only stat'ed
\* by the status check, and it is its extraction that throws.
statusFailures(bad) == {f \in bad : Extension[f] # "pdf"}

\* The script from its start to the call of saveVectorStore: status check,
\* choice of the files, read loop.  It exits here when there is nothing to do.
StartRun(r, target, bad, cap) ==
  /\ runs[r].pc \in {"idle", "done"}
  /\ starts < cap
  /\ LET status    == checkDocumentStatus(loadMeta(metaFile), docsDir, statusFailures(bad))
         toProcess == filesToProcess(status, target)
         documents == readDocuments(docsDir, toProcess, bad)
         outcome   == exitOutcome(status, target, toProcess, documents)
     IN  runs' = [runs EXCEPT ![r] =
                    [pc |-> IF outcome = "none" THEN "saving" ELSE "done",
                     outcome |-> outcome, target |-> target, status |-> status,
                     documents |-> documents,
                     failed |-> SeqToSet(toProcess) \cap bad, startClock |-> clock]]
  /\ starts' = starts + 1
  /\ UNCHANGED <<docsDir, clock, vectorsFile, docsFile, metaFile, reader, statusOut, chunking, asking, embedding, tokenChunking>>

\* saveVectorStore up to the first write: chunk, embed, write vectors.json.
WriteVectors(r) ==
  /\ runs[r].pc = "saving"
  /\ LET processed == processDocs(runs[r].documents, 0)
     IN  vectorsFile' = [exists |-> TRUE,
                         ids |-> [i \in DOMAIN processed |-> processed[i].metadata.id],
                         vectors |-> [i \in DOMAIN processed |-> embed(processed[i].pageContent)]]
  /\ runs' = [runs EXCEPT ![r].pc = "wroteVectors"]
  /\ UNCHANGED <<docsDir, clock, docsFile, metaFile, starts, reader, statusOut, chunking, asking, embedding, tokenChunking>>

\* The second write: docs.json.
WriteDocs(r) ==
  /\ runs[r].pc = "wroteVectors"
  /\ LET processed == processDocs(runs[r].documents, 0)
     IN  docsFile' = [exists |-> TRUE,
                      map |-> [i \in DOMAIN processed |->
                                 [text |-> processed[i].pageContent,
                                  metadata |-> processed[i].metadata,
                                  vector |-> embed(processed[i].pageContent)]]]
  /\ runs' = [runs EXCEPT ![r].pc = "wroteDocs"]
  /\ UNCHANGED <<docsDir, clock, vectorsFile, metaFile, starts, reader, statusOut, chunking, asking, embedding, tokenChunking>>

\* The third write, meta.json, after which the script reports and exits.
WriteMeta(r) ==
  /\ runs[r].pc = "wroteDocs"
  /\ metaFile' = [exists |-> TRUE,
                  records |-> metaRecords(processDocs(runs[r].documents, 0))]
  /\ runs' = [runs EXCEPT ![r].pc = "done", ![r].outcome = "written"]
  /\ UNCHANGED <<docsDir, clock, vectorsFile, docsFile, starts, reader, statusOut, chunking, asking, embedding, tokenChunking>>

\* saveVectorStore throws (embed rejects, or a writeFileSync fails) or the
\* process is killed: the script's catch reports and exits, and the files stay
\* as the writes made so far left them.
FailRun(r) ==
  /\ runs[r].pc \in {"saving", "wroteVectors", "wroteDocs"}
  /\ runs' = [runs EXCEPT ![r].pc = "done", ![r].outcome = "failed"]
  /\ UNCHANGED <<docsDir, clock, vectorsFile, docsFile, metaFile, starts, reader, statusOut, chunking, asking, embedding, tokenChunking>>

\* loadVectorStore, first read: vectors.json (a missing file throws).
LoadVectors ==
  /\ reader.pc = "idle"
  /\ reader' = IF vectorsFile.exists
               THEN [pc |-> "gotVectors", ids |-> vectorsFile.ids,
                     vectors |-> vectorsFile.vectors, docs |-> <<>>]
               ELSE FailedReader
  /\ UNCHANGED <<docsDir, clock, vectorsFile, docsFile, metaFile, runs, starts, statusOut, chunking, asking, embedding, tokenChunking>>

\* loadVectorStore, second read: docs.json; the handle is returned.
LoadDocs ==
  /\ reader.pc = "gotVectors"
  /\ reader' = IF docsFile.exists
               THEN [reader EXCEPT !.pc = "loaded", !.docs = docsFile.map]
               ELSE FailedReader
  /\ UNCHANGED <<docsDir, clock, vectorsFile, docsFile, metaFile, runs, starts, statusOut, chunking, asking, embedding, tokenChunking>>

\* GET /api/document-status: the lists of checkDocumentStatus are returned.
DocumentStatus(fail) ==
  /\ statusOut' = [status |-> checkDocumentStatus(loadMeta(metaFile), docsDir, fail),
                   fail |-> fail, fresh |-> TRUE]
  /\ UNCHANGED <<docsDir, clock, vectorsFile, docsFile, metaFile, runs, starts, reader, chunking, asking, embedding, tokenChunking>>

\* At most one file cannot be read during a run or a status check.
FailSets(dir) == {{}} \cup {{f} : f \in SeqToSet(listFiles(dir))}

\* The names the pipeline's environment puts into ./docs.
Sources == {"a.txt", "b.md", "c.pdf"}

\* The ingestion process of the specification in which runs do not overlap.
OneRun == {"r1"}

Environment ==
  \/ \E f \in Sources, t \in Contents : Upload(f, t)
  \/ \E f \in Sources : DeleteDocument(f)

Query ==
  \/ LoadVectors
  \/ LoadDocs

\* One ingestion process at a time, and the directory changing under it.
Next ==
  \/ Environment
  \/ \E target \in {"*"} \cup Sources, bad \in FailSets(docsDir) :
        StartRun("r1", target, bad, MaxStarts)
  \/ \E r \in OneRun : WriteVectors(r)
  \/ \E r \in OneRun : WriteDocs(r)
  \/ \E r \in OneRun : WriteMeta(r)

Spec == Init /\ [][Next]_vars

\* The same, with runs that may fail or be abandoned inside saveVectorStore.
NextFail ==
  \/ Next
  \/ \E r \in OneRun : FailRun(r)

SpecFail == Init /\ [][NextFail]_vars

\* The same, with a query (POST /api/ask) loading the index at any moment.
NextQuery ==
  \/ Next
  \/ Query

SpecQuery == Init /\ [][NextQuery]_vars

\* Two ingestion processes started independently (two POST /api/ingest, or a
\* request and the script run by hand) after an earlier run: nothing in the
\* handlers or the script keeps them apart.  Full mode, every file readable.
NextConc ==
  \/ Environment
  \/ \E r \in Runs : StartRun(r, "*", {}, MaxStarts + 1)
  \/ \E r \in Runs : WriteVectors(r)
  \/ \E r \in Runs : WriteDocs(r)
  \/ \E r \in Runs : WriteMeta(r)

SpecConc == Init /\ [][NextConc]_vars

\* ------------------------------------------------------------------------
\* checkDocumentStatus as a function of meta.json, the directory and the reads
\* that fail: the inputs are drawn from every directory over the four names
\* and every meta.json that saveVectorStore writes for documents of distinct
\* sources.

EntriesOf(f) ==
  IF Extension[f] = "doc" THEN {Entry(f, "one", 0)}
  ELSE {Entry(f, t, m) : t \in Contents, m \in {0, 1}}

StatusDirs ==
  UNION {{d \in [S -> UNION {EntriesOf(f) : f \in S}] : \A f \in S : d[f] \in EntriesOf(f)} :
           S \in SUBSET FileNames}

DocumentLists ==
  UNION {{d \in [1..n -> [pageContent : Contents \ {""}, source : Sources]] :
            \A i, j \in 1..n : i # j => d[i].source # d[j].source} : n \in 0..2}

InitStatus ==
  /\ docsDir \in StatusDirs
  /\ clock = 0
  /\ vectorsFile = [exists |-> FALSE, ids |-> <<>>, vectors |-> <<>>]
  /\ docsFile = [exists |-> FALSE, map |-> <<>>]
  /\ \E docs \in DocumentLists :
        metaFile = [exists |-> TRUE, records |-> metaRecords(processDocs(docs, 0))]
  /\ runs = [r \in Runs |-> IdleRun]
  /\ starts = 0
  /\ reader = IdleReader
  /\ statusOut = NoStatus
  /\ chunking = NoChunking
  /\ asking = NoAsking
  /\ embedding = NoEmbedding
  /\ tokenChunking = NoTokenChunking

NextStatus == \E fail \in FailSets(docsDir) : DocumentStatus(fail)

SpecStatus == InitStatus /\ [][NextStatus]_vars

\* ------------------------------------------------------------------------
\* saveVectorStore as a function of its argument: the script has read one to
\* three files, of any contents and in any order, and calls it over an empty
\* ./data.

SaveInputs ==
  UNION {{d \in [1..n -> [pageContent : Contents, source : Sources]] :
            \A i, j \in 1..n : i # j => d[i].source # d[j].source} : n \in 1..3}

\* The directory the documents were read from, and the status the run found.
DirOf(docs) ==
  [f \in {docs[i].source : i \in DOMAIN docs} |->
     Entry(f, (CHOOSE d \in SeqToSet(docs) : d.source = f).pageContent, 0)]

AllNew(docs) == [EmptyStatus EXCEPT !.new = [i \in DOMAIN docs |-> docs[i].source]]

InitSave ==
  /\ clock = 0
  /\ vectorsFile = [exists |-> FALSE, ids |-> <<>>, vectors |-> <<>>]
  /\ docsFile = [exists |-> FALSE, map |-> <<>>]
  /\ metaFile = [exists |-> FALSE, records |-> <<>>]
  /\ \E docs \in SaveInputs :
        /\ docsDir = DirOf(docs)
        /\ runs = [r \in Runs |->
                     IF r \in OneRun
                     THEN [IdleRun EXCEPT !.pc = "saving", !.outcome = "none",
                                          !.status = AllNew(docs), !.documents = docs]
                     ELSE IdleRun]
  /\ starts = 1
  /\ reader = IdleReader
  /\ statusOut = NoStatus
  /\ chunking = NoChunking
  /\ asking = NoAsking
  /\ embedding = NoEmbedding
  /\ tokenChunking = NoTokenChunking

NextSave ==
  \/ \E r \in OneRun : WriteVectors(r)
  \/ \E r \in OneRun : WriteDocs(r)
  \/ \E r \in OneRun : WriteMeta(r)

SpecSave == InitSave /\ [][NextSave]_vars

\* ------------------------------------------------------------------------
\* chunkTextEnhanced as a function of its three arguments: every text of up to
\* MaxSentences parts, every maxTokens of TokenLimits, every smaller overlap,
\* the parts counting up to one token more than maxTokens.

Texts(maxTokens) ==
  UNION {[1..n -> [tokens : 0..(maxTokens + 1), brk : BOOLEAN]] : n \in 0..MaxSentences}

InitChunk ==
  /\ docsDir = SeededDir
  /\ clock = 0
  /\ vectorsFile = [exists |-> FALSE, ids |-> <<>>, vectors |-> <<>>]
  /\ docsFile = [exists |-> FALSE, map |-> <<>>]
  /\ metaFile = [exists |-> FALSE, records |-> <<>>]
  /\ runs = [r \in Runs |-> IdleRun]
  /\ starts = 0
  /\ reader = IdleReader
  /\ statusOut = NoStatus
  /\ \E maxTokens \in TokenLimits :
       \E overlapTokens \in 0..(maxTokens - 1), text \in Texts(maxTokens) :
         chunking = [text |-> text, maxTokens |-> maxTokens, overlapTokens |-> overlapTokens,
                     chunks |-> <<>>, done |-> FALSE]
  /\ asking = NoAsking
  /\ embedding = NoEmbedding
  /\ tokenChunking = NoTokenChunking

Chunk ==
  /\ ~chunking.done
  /\ chunking' = [chunking EXCEPT
                    !.chunks = chunkTextEnhanced(chunking.text, chunking.maxTokens,
                                                 chunking.overlapTokens),
                    !.done = TRUE]
  /\ UNCHANGED <<docsDir, clock, vectorsFile, docsFile, metaFile, runs, starts, reader,
                 statusOut, asking, embedding, tokenChunking>>

SpecChunk == InitChunk /\ [][Chunk]_vars

\* ------------------------------------------------------------------------
\* POST /api/ask over an index at rest: the handler parses the body, loads the
\* handle, searches and answers.

\* The texts of the chunks and of the queries, as split(/\s+/) yields them,
\* and the vector the embedder yields for each.
ChunkTexts == {<<"">>, <<"plan">>, <<"cashflow">>, <<"cash", "plan">>, <<"ab", "plan", "plan">>}

Queries == {<<"plan">>, <<"cash">>, <<"ab", "cash">>}

EmbeddingOf(words) ==
  CASE words = <<"">> -> <<0, 5>>
    [] words = <<"plan">> -> <<3, 4>>
    [] words = <<"cashflow">> -> <<5, 0>>
    [] words = <<"cash", "plan">> -> <<4, 3>>
    [] words = <<"ab", "plan", "plan">> -> <<-3, 4>>
    [] words = <<"cash">> -> <<4, 3>>
    [] words = <<"ab", "cash">> -> <<5, 0>>
    [] words = <<"ab">> -> <<0, 5>>
    [] words = <<"ab", "ab">> -> <<0, 5>>
    [] words = <<"ab", "">> -> <<3, 4>>

\* Stored vectors of a vectors.json that does not come from the embedder in
\* use: other dimensions, alone or mixed.
StoredVectors == {<<5>>, <<5, 0>>, <<3, 4>>, <<3, 4, 12>>, <<0, 5, 12>>}

NoResponse == [status |-> 0, error |-> "none", answer |-> "none", insufficient |-> FALSE,
               noContext |-> FALSE, contexts |-> <<>>, searchResults |-> 0]

\* A request: the body (valid against bodySchema or not), and what the
\* handler finds in ./data.
Request(valid, query, k, vectorsExists, docsExists, vectors, texts) ==
  [pc |-> "request", valid |-> valid, query |-> query, k |-> k,
   vectorsExists |-> vectorsExists, docsExists |-> docsExists,
   vectors |-> vectors, docsMap |-> [i \in DOMAIN texts |-> [text |-> texts[i]]],
   response |-> NoResponse]

\* The indexes saveVectorStore writes with the embedder in use.
Indexes == UNION {[1..n -> ChunkTexts] : n \in 0..MaxChunks}

PipelineAtRest ==
  /\ docsDir = SeededDir
  /\ clock = 0
  /\ vectorsFile = [exists |-> FALSE, ids |-> <<>>, vectors |-> <<>>]
  /\ docsFile = [exists |-> FALSE, map |-> <<>>]
  /\ metaFile = [exists |-> FALSE, records |-> <<>>]
  /\ runs = [r \in Runs |-> IdleRun]
  /\ starts = 0
  /\ reader = IdleReader
  /\ statusOut = NoStatus
  /\ chunking = NoChunking
  /\ embedding = NoEmbedding
  /\ tokenChunking = NoTokenChunking

\* A body that bodySchema rejects, a valid one over a ./data with a file
\* missing, or a valid one over an index of the embedder in use.
InitAsk ==
  /\ PipelineAtRest
  /\ \/ asking = Request(FALSE, <<"ab">>, 1, TRUE, TRUE, <<>>, <<>>)
     \/ \E ve \in BOOLEAN, de \in BOOLEAN :
           asking = Request(TRUE, <<"plan">>, 1, ve, de, <<>>, <<>>)
     \/ \E texts \in Indexes, query \in Queries :
           \E k \in 0..(Len(texts) + 1) :
             asking = Request(TRUE, query, k, TRUE, TRUE,
                              [i \in DOMAIN texts |-> EmbeddingOf(texts[i])], texts)

\* Queries with words shorter than 3 characters ("ab " splits into "ab" and
\* ""), alone or next to a longer word, over indexes of one or two chunks.
ShortWordQueries == {<<"ab", "ab">>, <<"ab", "">>, <<"ab", "cash">>, <<"plan">>}

ShortWordRequests ==
  UNION {{Request(TRUE, query, k, TRUE, TRUE,
                  [i \in DOMAIN texts |-> EmbeddingOf(texts[i])], texts) :
            query \in ShortWordQueries, k \in 1..Len(texts)} :
           texts \in [1..1 -> ChunkTexts] \cup [1..2 -> ChunkTexts]}

InitShortWords == PipelineAtRest /\ asking \in ShortWordRequests

\* The same with a vectors.json of vectors of any dimension.
InitCorrupt ==
  /\ PipelineAtRest
  /\ \E n \in 1..MaxChunks :
        \E query \in Queries, k \in 1..n, vectors \in [1..n -> StoredVectors] :
          asking = Request(TRUE, query, k, TRUE, TRUE, vectors, [i \in 1..n |-> <<"plan">>])

\* The handler of ask.ts, from bodySchema.parse to the response.
Ask ==
  /\ asking.pc = "request"
  /\ LET failure(message) == [NoResponse EXCEPT !.status = 400, !.error = message]
         contexts == similaritySearchWithScore(asking.vectors, asking.docsMap, asking.query,
                                               EmbeddingOf(asking.query), asking.k)
         response ==
           IF ~asking.valid THEN failure("ZodError")
           ELSE IF ~asking.vectorsExists \/ ~asking.docsExists THEN failure("ENOENT")
           ELSE IF searchThrows(DOMAIN asking.vectors, asking.docsMap)
           THEN failure("TypeError")
           ELSE IF Len(contexts) < 2
           THEN [status |-> 200, error |-> "none", answer |-> "insufficient",
                 insufficient |-> TRUE, noContext |-> FALSE, contexts |-> contexts,
                 searchResults |-> Len(contexts)]
           ELSE IF Len(contexts) = 0
           THEN [status |-> 200, error |-> "none", answer |-> "noContext",
                 insufficient |-> TRUE, noContext |-> TRUE, contexts |-> <<>>,
                 searchResults |-> 0]
           ELSE [status |-> 200, error |-> "none", answer |-> "generated",
                 insufficient |-> FALSE, noContext |-> FALSE, contexts |-> contexts,
                 searchResults |-> Len(contexts)]
     IN  asking' = [asking EXCEPT !.pc = "responded", !.response = response]
  /\ UNCHANGED <<docsDir, clock, vectorsFile, docsFile, metaFile, runs, starts, reader,
                 statusOut, chunking, embedding, tokenChunking>>

SpecAsk == InitAsk /\ [][Ask]_vars

SpecCorrupt == InitCorrupt /\ [][Ask]_vars

SpecShortWords == InitShortWords /\ [][Ask]_vars

\* ------------------------------------------------------------------------
\* embeddings.js in one process: the module variable embedder (0 while it is
\* undefined, else the number of the pipeline instance it holds) and the calls
\* of embed in flight, which interleave at their awaits.

\* The calls of embed that may be in flight together (two requests to
\* /api/ask and one more).
Calls == {"c1", "c2", "c3"}

\* The most texts a call embeds.
MaxTexts == 2

IdleCall == [pc |-> "idle", e |-> 0, left |-> 0, used |-> {}]

InitEmbed ==
  /\ docsDir = SeededDir
  /\ clock = 0
  /\ vectorsFile = [exists |-> FALSE, ids |-> <<>>, vectors |-> <<>>]
  /\ docsFile = [exists |-> FALSE, map |-> <<>>]
  /\ metaFile = [exists |-> FALSE, records |-> <<>>]
  /\ runs = [r \in Runs |-> IdleRun]
  /\ starts = 0
  /\ reader = IdleReader
  /\ statusOut = NoStatus
  /\ chunking = NoChunking
  /\ asking = NoAsking
  /\ embedding = [embedder |-> 0, created |-> 0, calls |-> [c \in Calls |-> IdleCall]]
  /\ tokenChunking = NoTokenChunking

\* embed(texts) up to the first await: getEmbeddings tests embedder and, when
\* it is undefined, calls pipeline() and waits for it; otherwise the call has
\* the embedder the module holds.
GetEmbeddings(c, n) ==
  /\ embedding.calls[c].pc = "idle"
  /\ embedding' =
       IF embedding.embedder = 0
       THEN [embedding EXCEPT
               !.created = @ + 1,
               !.calls[c] = [pc |-> "loading", e |-> embedding.created + 1, left |-> n,
                             used |-> {}]]
       ELSE [embedding EXCEPT
               !.calls[c] = [pc |-> "ready", e |-> embedding.embedder, left |-> n,
                             used |-> {}]]
  /\ UNCHANGED <<docsDir, clock, vectorsFile, docsFile, metaFile, runs, starts, reader,
                 statusOut, chunking, asking, tokenChunking>>

\* The pipeline() of the call resolves: embedder = <the instance>, and
\* getEmbeddings returns embedder.
PipelineResolves(c) ==
  /\ embedding.calls[c].pc = "loading"
  /\ embedding' = [embedding EXCEPT !.embedder = embedding.calls[c].e,
                                    !.calls[c].pc = "ready"]
  /\ UNCHANGED <<docsDir, clock, vectorsFile, docsFile, metaFile, runs, starts, reader,
                 statusOut, chunking, asking, tokenChunking>>

\* One turn of the loop over texts: await e(t, ...); embed returns after the
\* last one.
EmbedText(c) ==
  /\ embedding.calls[c].pc = "ready"
  /\ embedding' = [embedding EXCEPT
                     !.calls[c].used = @ \cup {embedding.calls[c].e},
                     !.calls[c].left = @ - 1,
                     !.calls[c].pc = IF embedding.calls[c].left = 1 THEN "done" ELSE "ready"]
  /\ UNCHANGED <<docsDir, clock, vectorsFile, docsFile, metaFile, runs, starts, reader,
                 statusOut, chunking, asking, tokenChunking>>

\* The caller is done with the vectors; it may call embed again.
Returned(c) ==
  /\ embedding.calls[c].pc = "done"
  /\ embedding' = [embedding EXCEPT !.calls[c] = IdleCall]
  /\ UNCHANGED <<docsDir, clock, vectorsFile, docsFile, metaFile, runs, starts, reader,
                 statusOut, chunking, asking, tokenChunking>>

NextEmbed ==
  \/ \E c \in Calls, n \in 1..MaxTexts : GetEmbeddings(c, n)
  \/ \E c \in Calls : PipelineResolves(c)
  \/ \E c \in Calls : EmbedText(c)
  \/ \E c \in Calls : Returned(c)

SpecEmbed == InitEmbed /\ [][NextEmbed]_vars

\* ------------------------------------------------------------------------
\* chunkText of chunker.js, one turn of its for loop at a time.  The text is
\* represented by ids.length, the number of tokens enc.encode yields, and a
\* chunk by the start and end it is pushed with; turn is the parity of the
\* turns the loop has made.

\* The most tokens a text encodes to.
MaxIds == 4

\* The values of maxTokens and of overlapTokens.
MaxTokenLimit == 3

\* The chunks of which the model keeps track: the last MaxEmitted pushed.  A
\* loop that ends pushes at most one chunk per token.
MaxEmitted == MaxIds + 2

\* The lowest start the model tells apart: below it start < ids.length and
\* end < ids.length hold as they do at it.
LowestStart == 0 - (MaxIds + 2)

\* chunks.push(chunk), the oldest chunk forgotten beyond MaxEmitted.
push(chunks, chunk) ==
  IF Len(chunks) < MaxEmitted THEN Append(chunks, chunk) ELSE Append(Tail(chunks), chunk)

InitChunkText ==
  /\ docsDir = SeededDir
  /\ clock = 0
  /\ vectorsFile = [exists |-> FALSE, ids |-> <<>>, vectors |-> <<>>]
  /\ docsFile = [exists |-> FALSE, map |-> <<>>]
  /\ metaFile = [exists |-> FALSE, records |-> <<>>]
  /\ runs = [r \in Runs |-> IdleRun]
  /\ starts = 0
  /\ reader = IdleReader
  /\ statusOut = NoStatus
  /\ chunking = NoChunking
  /\ asking = NoAsking
  /\ embedding = NoEmbedding
  /\ \E length \in 0..MaxIds, maxTokens \in 1..MaxTokenLimit, overlapTokens \in 0..MaxTokenLimit :
        tokenChunking = [pc |-> "loop", length |-> length, maxTokens |-> maxTokens,
                         overlapTokens |-> overlapTokens, start |-> 0, chunks |-> <<>>,
                         turn |-> 0]

\* The loop test and, when it passes, the body and the increment:
\* start < ids.length; push {start, end}; break when end === ids.length;
\* start += maxTokens - overlapTokens.
ChunkTextLoop ==
  /\ tokenChunking.pc = "loop"
  /\ LET start == tokenChunking.start
         end   == Min(start + tokenChunking.maxTokens, tokenChunking.length)
     IN  tokenChunking' =
           IF start < tokenChunking.length
           THEN [tokenChunking EXCEPT
                   !.turn = 1 - @,
                   !.chunks = push(@, [start |-> start, end |-> end]),
                   !.pc = IF end = tokenChunking.length THEN "returned" ELSE "loop",
                   !.start = IF end = tokenChunking.length THEN start
                             ELSE MaxOf({LowestStart,
                                         start + (tokenChunking.maxTokens
                                                    - tokenChunking.overlapTokens)})]
           ELSE [tokenChunking EXCEPT !.pc = "returned"]
  /\ UNCHANGED <<docsDir, clock, vectorsFile, docsFile, metaFile, runs, starts, reader,
                 statusOut, chunking, asking, embedding>>

SpecChunkText == InitChunkText /\ [][ChunkTextLoop]_vars

\* The loop is synchronous code: it runs on until it returns.
SpecChunkTextLive == SpecChunkText /\ WF_vars(ChunkTextLoop)

\* ------------------------------------------------------------------------
\* Vocabulary of the claims

SourcesOf(meta) == {meta[i].source : i \in DOMAIN meta}

\* The listed names: entries of ./docs ending in .pdf, .txt or .md.
Listed(dir) == {f \in DOMAIN dir : Extension[f] \in {"pdf", "txt", "md"}}

\* What the status check would answer now, every read succeeding.
StatusNow == checkDocumentStatus(loadMeta(metaFile), docsDir, {})

\* The list of a status, if any, that holds the name.
ListsHolding(st, f) ==
  {l \in {"unchanged", "modified", "new", "deleted"} :
     \/ l = "unchanged" /\ f \in SeqToSet(st.unchanged)
     \/ l = "modified" /\ f \in SeqToSet(st.modified)
     \/ l = "new" /\ f \in SeqToSet(st.new)
     \/ l = "deleted" /\ f \in SeqToSet(st.deleted)}

\* The fingerprint of a listed file: the hash of its text, or for a PDF the
\* hash of its name, size and modification time.
Fingerprint(dir, f) ==
  IF Extension[f] = "pdf"
  THEN [md5 |-> [kind |-> "stat", s |-> f, size |-> dir[f].size, mtime |-> dir[f].mtime]]
  ELSE [md5 |-> [kind |-> "text", s |-> dir[f].text, size |-> 0, mtime |-> 0]]

RecordedChecksums(meta, f) == {meta[i].checksum : i \in {j \in DOMAIN meta : meta[j].source = f}}

\* The bucket the stated rule gives a name.
RuleBucket(meta, dir, f) ==
  IF f \in Listed(dir)
  THEN IF f \notin SourcesOf(meta) THEN "new"
       ELSE IF Fingerprint(dir, f) \in RecordedChecksums(meta, f) THEN "unchanged"
       ELSE "modified"
  ELSE "deleted"

Completed(r) == runs[r].pc = "done"

Wrote(r) == runs[r].pc = "done" /\ runs[r].outcome = "written"

InSaveVectorStore(r) == runs[r].pc \in {"saving", "wroteVectors", "wroteDocs"}

\* No entry of ./docs has changed since the run made its status check.
QuietSince(r) == clock = runs[r].startClock

DocSources(r) == {runs[r].documents[i].source : i \in DOMAIN runs[r].documents}

\* ------------------------------------------------------------------------
\* C1: once a run has written the index, every file it classified unchanged
\* (known before the run) that is still in ./docs has chunks in docs.json and
\* meta.json.
C1_UnchangedKeepChunks ==
  \A r \in Runs :
    Wrote(r) =>
      \A f \in SeqToSet(runs[r].status.unchanged) \cap DOMAIN docsDir :
        /\ f \in SourcesOf(metaFile.records)
        /\ \E k \in DOMAIN docsFile.map : docsFile.map[k].metadata.source = f

\* C2 (as claimed): every name, a file whose read fails included, is in the
\* list the rule gives it and in no other.
C2_RuleForEveryFile ==
  statusOut.fresh =>
    \A f \in Listed(docsDir) \cup SourcesOf(loadMeta(metaFile)) :
      ListsHolding(statusOut.status, f) = {RuleBucket(loadMeta(metaFile), docsDir, f)}

\* C2 (amended): a name whose read and stat succeed is in the list the rule
\* gives it and in no other; a listed file whose read or stat fails is in
\* modified and in no other list, recorded or not.
C2_RuleForReadableFiles ==
  statusOut.fresh =>
    \A f \in Listed(docsDir) \cup SourcesOf(loadMeta(metaFile)) :
      ListsHolding(statusOut.status, f) =
        IF f \in statusOut.fail THEN {"modified"}
        ELSE {RuleBucket(loadMeta(metaFile), docsDir, f)}

\* A status check in which the read of a file that is not recorded failed,
\* next to a recorded file whose read succeeded.
C2_Witness ==
  /\ statusOut.fresh
  /\ \E f \in statusOut.fail : f \notin SourcesOf(loadMeta(metaFile))
  /\ statusOut.status.unchanged # <<>>
  /\ statusOut.status.deleted # <<>>

\* C3: the four lists are pairwise disjoint, none repeats a name, and together
\* they hold exactly the listed names and the recorded sources.
C3_Partition ==
  statusOut.fresh =>
    LET st == statusOut.status
        u  == SeqToSet(st.unchanged)
        m  == SeqToSet(st.modified)
        n  == SeqToSet(st.new)
        d  == SeqToSet(st.deleted)
    IN  /\ u \cap m = {} /\ u \cap n = {} /\ u \cap d = {}
        /\ m \cap n = {} /\ m \cap d = {} /\ n \cap d = {}
        /\ NoDups(st.unchanged) /\ NoDups(st.modified)
        /\ NoDups(st.new) /\ NoDups(st.deleted)
        /\ u \cup m \cup n \cup d = Listed(docsDir) \cup SourcesOf(loadMeta(metaFile))

\* A status check with unchanged, modified and deleted names, a recorded source
\* that is listed, and an entry of ./docs that is not listed.
C3_Witness ==
  /\ statusOut.fresh
  /\ statusOut.status.unchanged # <<>>
  /\ statusOut.status.modified # <<>>
  /\ statusOut.status.deleted # <<>>
  /\ "d.doc" \in DOMAIN docsDir

\* ------------------------------------------------------------------------
\* The directory as the run saw it held text files only, each of them either
\* read by the run (and yielding chunks) or classified unchanged, so that every
\* file of the directory counts as ingested once the run has written.
IngestedTextFiles(r) ==
  /\ Wrote(r)
  /\ QuietSince(r)
  /\ \A f \in DOMAIN docsDir : Extension[f] \in {"txt", "md"}
  /\ \A f \in DOMAIN docsDir : f \in DocSources(r) \/ f \in SeqToSet(runs[r].status.unchanged)
  /\ \A i \in DOMAIN runs[r].documents : runs[r].documents[i].pageContent # ""

\* C4: after a run has ingested text files, whichever one of them gets another
\* content, the status check puts that file in modified, every other file in
\* unchanged and nothing in new or deleted.
C4_OnlyTheEditedFileModified ==
  \A r \in Runs :
    IngestedTextFiles(r) =>
      \A f \in DocSources(r) : \A t \in Contents \ {docsDir[f].text} :
        LET edited == [docsDir EXCEPT ![f] = Entry(f, t, clock + 1)]
            st     == checkDocumentStatus(loadMeta(metaFile), edited, {})
        IN  /\ st.modified = <<f>>
            /\ SeqToSet(st.unchanged) = DOMAIN docsDir \ {f}
            /\ st.new = <<>>
            /\ st.deleted = <<>>

\* C5: a PDF that a run has ingested and that has not been touched since is
\* classified unchanged: its recorded checksum is the fingerprint of its name,
\* size and modification time.
C5_PdfFingerprintStable ==
  \A r \in Runs :
    Wrote(r) /\ QuietSince(r) =>
      \A i \in DOMAIN runs[r].documents :
        LET d == runs[r].documents[i]
        IN  Extension[d.source] = "pdf" /\ d.pageContent # ""
              => /\ d.source \in SeqToSet(StatusNow.unchanged)
                 /\ Fingerprint(docsDir, d.source)
                      \in RecordedChecksums(loadMeta(metaFile), d.source)

\* C6: once a full run in which every read succeeded has completed, with no
\* change to ./docs since it began, the next status check classifies every
\* listed file unchanged and the next run has nothing to process.
C6_Converges ==
  \A r \in Runs :
    /\ Completed(r) /\ runs[r].target = "*" /\ runs[r].outcome \in {"written", "skipped"}
    /\ QuietSince(r)
    /\ Len(runs[r].documents) = Len(runs[r].status.new) + Len(runs[r].status.modified)
    => /\ SeqToSet(StatusNow.unchanged) = Listed(docsDir)
       /\ filesToProcess(StatusNow, "*") = <<>>

\* C7: when a run that re-ingests a modified file completes, every chunk of
\* that file in vectors.json, docs.json and meta.json comes from the content
\* the run read and carries its checksum.
C7_Superseded ==
  [][\A r \in Runs :
       runs[r].pc = "wroteDocs" /\ runs'[r].pc = "done" =>
         \A i \in DOMAIN runs[r].documents :
           LET d == runs[r].documents[i]
           IN  d.source \in SeqToSet(runs[r].status.modified) =>
                 /\ \A k \in DOMAIN docsFile'.map :
                      docsFile'.map[k].metadata.source = d.source =>
                        /\ docsFile'.map[k].text.of = d.pageContent
                        /\ docsFile'.map[k].metadata.checksum
                             = [md5 |-> [kind |-> "text", s |-> d.pageContent,
                                         size |-> 0, mtime |-> 0]]
                        /\ k \in DOMAIN vectorsFile'.vectors =>
                             vectorsFile'.vectors[k].vecOf.of = d.pageContent
                 /\ \A k \in DOMAIN metaFile'.records :
                      metaFile'.records[k].source = d.source =>
                        metaFile'.records[k].checksum
                          = [md5 |-> [kind |-> "text", s |-> d.pageContent,
                                      size |-> 0, mtime |-> 0]]]_vars

\* The run found nothing to ingest: in single-file mode its target is
\* classified unchanged, in full mode no file is new or modified.
NothingToIngest(r) ==
  IF runs[r].target = "*"
  THEN runs[r].status.new = <<>> /\ runs[r].status.modified = <<>>
  ELSE runs[r].target \in SeqToSet(runs[r].status.unchanged)

\* C8: the step by which a run finds nothing to ingest leaves vectors.json,
\* docs.json and meta.json exactly as they were, and the run ends there as
\* skipped, never entering saveVectorStore, the only writer of the three files.
C8_UnchangedRunWritesNothing ==
  [][\A r \in Runs :
       runs'[r] # runs[r] /\ NothingToIngest(r)' =>
         /\ UNCHANGED <<vectorsFile, docsFile, metaFile>>
         /\ runs'[r].pc = "done"
         /\ runs'[r].outcome = "skipped"]_vars

\* A single-file run skipped over an index that exists, its target unchanged.
C8_Witness ==
  \E r \in Runs :
    /\ Completed(r) /\ runs[r].outcome = "skipped"
    /\ runs[r].target \in SeqToSet(runs[r].status.unchanged)
    /\ metaFile.exists /\ metaFile.records # <<>>

\* C9: the handle loadVectorStore returns has, for every id of the vector
\* data, a document entry whose text is the text the vector was computed from.
C9_HandleConsistent ==
  reader.pc = "loaded" =>
    \A k \in DOMAIN reader.ids :
      /\ reader.ids[k] \in DOMAIN reader.docs
      /\ reader.docs[reader.ids[k]].text = reader.vectors[k].vecOf

\* C10: whenever no ingestion run is in progress, the persisted ids, vectors,
\* documents and metadata are those of one run.
C10_IndexOfOneRun ==
  (\A r \in Runs : ~InSaveVectorStore(r)) /\ vectorsFile.exists =>
    /\ DOMAIN vectorsFile.ids = DOMAIN docsFile.map
    /\ \A k \in DOMAIN vectorsFile.ids :
         /\ vectorsFile.ids[k] = docsFile.map[k].metadata.id
         /\ vectorsFile.vectors[k] = docsFile.map[k].vector
    /\ metaFile.records = [k \in DOMAIN docsFile.map |-> docsFile.map[k].metadata]

\* ------------------------------------------------------------------------
\* docs.json holds, for every id, the text, the metadata and the vector, so a
\* complete index is one whose vectors.json and meta.json are those of its
\* docs.json; the index before the first run is the absence of the three files.
NoIndex == ~vectorsFile.exists /\ ~docsFile.exists /\ ~metaFile.exists

CompleteIndex ==
  /\ vectorsFile.exists /\ docsFile.exists /\ metaFile.exists
  /\ DOMAIN vectorsFile.ids = DOMAIN docsFile.map
  /\ vectorsFile.ids = [k \in DOMAIN docsFile.map |-> docsFile.map[k].metadata.id]
  /\ vectorsFile.vectors = [k \in DOMAIN docsFile.map |-> docsFile.map[k].vector]
  /\ metaFile.records = [k \in DOMAIN docsFile.map |-> docsFile.map[k].metadata]

Failed(r) == runs[r].pc = "done" /\ runs[r].outcome = "failed"

\* C11: when a run has failed or been abandoned inside saveVectorStore, the
\* persisted index is a complete one (the new index or the prior index, which
\* before the first run is no index at all), never files of the two mixed.
C11_FailedRunLeavesCompleteIndex ==
  \A r \in Runs : Failed(r) => NoIndex \/ CompleteIndex

\* ------------------------------------------------------------------------
\* The files the run set out to read.
ToProcess(r) == filesToProcess(runs[r].status, runs[r].target)

\* The chunks of the document are in the three files, and nothing else is
\* stored under its source.
Persisted(d) ==
  LET at == {k \in DOMAIN docsFile.map : docsFile.map[k].metadata.source = d.source}
  IN  /\ Cardinality(at) = NumChunks[d.pageContent]
      /\ \A k \in at :
            /\ docsFile.map[k].text.of = d.pageContent
            /\ k \in DOMAIN vectorsFile.vectors
            /\ vectorsFile.vectors[k] = [vecOf |-> docsFile.map[k].text]
            /\ k \in DOMAIN metaFile.records
            /\ metaFile.records[k].source = d.source

\* C17: the documents of a run are the files it set out to read, in order,
\* less those whose read or extraction threw; the run ends without writing
\* ("No documents to process") only when every one of them threw, and otherwise
\* every document read is persisted by that run.
C17_FailureSkipsOnlyThatFile ==
  \A r \in Runs :
    runs[r].pc # "idle" /\ ToProcess(r) # <<>> =>
      LET kept(f) == f \notin runs[r].failed
          read    == SelectSeq(ToProcess(r), kept)
      IN  /\ [i \in DOMAIN runs[r].documents |-> runs[r].documents[i].source] = read
          /\ (runs[r].outcome = "nodocs") <=> (read = <<>>)
          /\ read # <<>> => InSaveVectorStore(r) \/ Wrote(r)
          /\ Wrote(r) => \A i \in DOMAIN runs[r].documents : Persisted(runs[r].documents[i])

\* A run over three files wrote the index although the read of the first of
\* them had failed.
C17_Witness ==
  \E r \in Runs :
    /\ Wrote(r)
    /\ Len(ToProcess(r)) = 3
    /\ ToProcess(r)[1] \in runs[r].failed
    /\ Len(runs[r].documents) = 2

\* ------------------------------------------------------------------------
\* The sentences a chunk holds outside its seeded overlap, token by token.
Body(chunk) ==
  LET own(piece) == piece.kind = "tok" /\ ~piece.seed
      kept       == SelectSeq(chunk.text, own)
  IN  [i \in DOMAIN kept |-> kept[i].sent]

SentencesIn(chunk) == SeqToSet(Body(chunk))

\* The bodies of the chunks from number k on, one after the other.
RECURSIVE Bodies(_, _)
Bodies(chunks, k) ==
  IF k > Len(chunks) THEN <<>> ELSE Body(chunks[k]) \o Bodies(chunks, k + 1)

\* The tokens of the non-empty sentences of the text from part i on.
RECURSIVE SentenceTokens(_, _)
SentenceTokens(text, i) ==
  IF i > Len(text) THEN <<>>
  ELSE [j \in 1..text[i].tokens |-> i] \o SentenceTokens(text, i + 1)

\* C18: the token count recorded on a chunk is at most maxTokens, unless the
\* chunk holds a single sentence whose own token count exceeds maxTokens.
C18_TokenBudget ==
  chunking.done =>
    \A k \in DOMAIN chunking.chunks :
      LET chunk == chunking.chunks[k]
      IN  \/ chunk.tokens <= chunking.maxTokens
          \/ \E s \in DOMAIN chunking.text :
                /\ SentencesIn(chunk) = {s}
                /\ chunking.text[s].tokens > chunking.maxTokens

\* C19: a sentence of more than maxTokens tokens is, whole, in exactly one
\* chunk, and that chunk holds no other sentence outside its seeded overlap.
C19_OversizedSentenceAlone ==
  chunking.done =>
    \A s \in DOMAIN chunking.text :
      chunking.text[s].tokens > chunking.maxTokens =>
        \E k \in DOMAIN chunking.chunks :
          /\ Body(chunking.chunks[k]) = [j \in 1..chunking.text[s].tokens |-> s]
          /\ \A l \in DOMAIN chunking.chunks \ {k} : s \notin SentencesIn(chunking.chunks[l])

\* An oversized sentence between two other sentences, chunked with an overlap.
C19_Witness ==
  /\ chunking.done
  /\ chunking.overlapTokens > 0
  /\ Len(chunking.text) = 3
  /\ chunking.text[1].tokens > 0
  /\ chunking.text[2].tokens > chunking.maxTokens
  /\ chunking.text[3].tokens > 0
  /\ Len(chunking.chunks) = 3

\* C20: the chunks, their seeded overlaps left out, hold the tokens of every
\* non-empty sentence of the text, in the order of the text and with no gap.
C20_Coverage ==
  chunking.done => Bodies(chunking.chunks, 1) = SentenceTokens(chunking.text, 1)

\* Two paragraphs of a text with an empty sentence chunked into more than one
\* chunk, the later one seeded with overlap.
C20_Witness ==
  /\ chunking.done
  /\ Len(chunking.chunks) >= 2
  /\ \E i \in 1..(Len(chunking.text) - 1) : chunking.text[i].brk
  /\ \E i \in DOMAIN chunking.text : chunking.text[i].tokens = 0
  /\ \E i \in DOMAIN chunking.chunks[2].text : chunking.chunks[2].text[i].seed

\* ------------------------------------------------------------------------
\* The handler has answered from a search.
Searched == asking.pc = "responded" /\ asking.response.status = 200

\* C12: the search returns exactly min(k, number of indexed chunks) results
\* and their distances never decrease along the sequence.
C12_SearchOrdering ==
  Searched =>
    LET contexts == asking.response.contexts
    IN  /\ Len(contexts) = Min(asking.k, Len(asking.vectors))
        /\ \A i, j \in DOMAIN contexts :
              i < j => /\ ~contexts[i].distance.nan /\ ~contexts[j].distance.nan
                       /\ contexts[i].distance.den = contexts[j].distance.den
                       /\ contexts[i].distance.num <= contexts[j].distance.num

\* A search over three chunks cut at k = 2 whose best result is the last
\* chunk of the index and whose two distances differ.
C12_Witness ==
  /\ Searched
  /\ Len(asking.vectors) = 3
  /\ asking.k = 2
  /\ Len(asking.response.contexts) = 2
  /\ asking.response.contexts[1].id = 3
  /\ asking.response.contexts[1].distance.num < asking.response.contexts[2].distance.num

\* C13: over an index of a single chunk the reported distance is 1 minus the
\* cosine similarity of the chunk to the query.
C13_SingleChunkRawSimilarity ==
  Searched /\ Len(asking.vectors) = 1 /\ asking.k >= 1 =>
    LET d      == asking.response.contexts[1].distance
        cosine == cosSim(EmbeddingOf(asking.query), asking.vectors[1])
    IN  /\ Len(asking.response.contexts) = 1
        /\ ~d.nan
        /\ d.num * Unit * Unit = (Unit * Unit - cosine.val) * d.den

\* C14: a search with no context gets the no-context response (noContext,
\* no contexts, the guidance to re-index), a search with one context the
\* insufficient-corpus response without noContext.
C14_ZeroAndOneContextDistinguished ==
  Searched =>
    /\ Len(asking.response.contexts) = 0 /\ asking.response.searchResults = 0
         => asking.response.noContext /\ asking.response.answer = "noContext"
    /\ asking.response.searchResults = 1
         => /\ asking.response.insufficient /\ ~asking.response.noContext
            /\ asking.response.answer = "insufficient"

\* The body of the response is only the message of whatever was thrown.
CatchAll(response) == response.status = 400 /\ response.answer = "none"

\* C15: with vectors.json or docs.json missing, a valid request is not
\* answered by the catch-all response that an invalid body or any other
\* failure gets.
C15_MissingIndexDistinct ==
  asking.pc = "responded" /\ asking.valid
    /\ (~asking.vectorsExists \/ ~asking.docsExists)
    => ~CatchAll(asking.response)

\* The stored vectors differ in length from each other or from the query's.
DimensionMismatch ==
  \/ \E i \in DOMAIN asking.vectors : Len(asking.vectors[i]) # Len(EmbeddingOf(asking.query))
  \/ \E i, j \in DOMAIN asking.vectors : Len(asking.vectors[i]) # Len(asking.vectors[j])

\* C16: with mismatched dimensions the search aborts: the request is answered
\* with an error and no ranked context.
C16_DimensionMismatchAborts ==
  asking.pc = "responded" /\ DimensionMismatch =>
    asking.response.status # 200 /\ asking.response.contexts = <<>>

\* ------------------------------------------------------------------------
\* C21: a valid request over an index that exists and holds no chunk is
\* answered from a search that returned no result, whatever the query and k:
\* nothing is thrown.
C21_EmptyIndexEmptyResult ==
  asking.pc = "responded" /\ asking.valid /\ asking.vectorsExists /\ asking.docsExists
    /\ Len(asking.vectors) = 0
    => /\ asking.response.status = 200
       /\ asking.response.error = "none"
       /\ asking.response.contexts = <<>>
       /\ asking.response.searchResults = 0

\* A search for k = 1 over an index without chunks has been answered.
C21_Witness ==
  /\ asking.pc = "responded" /\ asking.valid
  /\ asking.vectorsExists /\ asking.docsExists
  /\ Len(asking.vectors) = 0
  /\ asking.k = 1
  /\ asking.query = <<"cash">>

\* ------------------------------------------------------------------------
\* The results of the same search without the cut at k: every indexed chunk
\* with its distance.
Uncut ==
  similaritySearchWithScore(asking.vectors, asking.docsMap, asking.query,
                            EmbeddingOf(asking.query), Len(asking.vectors))

\* C22: chunks of equal combined score come in the order of their ids, and
\* the results are the first k of that sequence, so that of the chunks tied
\* across the cut the ones of lower id are returned.
C22_StableTies ==
  Searched =>
    LET contexts == asking.response.contexts
        uncut    == Uncut
    IN  /\ \A i, j \in DOMAIN uncut :
              i < j /\ uncut[i].distance.num = uncut[j].distance.num
                => uncut[i].id < uncut[j].id
        /\ \A i \in DOMAIN contexts : contexts[i].id = uncut[i].id
        /\ \A i \in DOMAIN contexts : \A j \in DOMAIN uncut :
              uncut[j].distance.num = contexts[i].distance.num
                /\ uncut[j].id \notin {contexts[l].id : l \in DOMAIN contexts}
                => uncut[j].id > contexts[i].id

\* Three chunks, the last two tied below the first in the ranking, cut between
\* the tied ones.
C22_Witness ==
  /\ Searched
  /\ Len(asking.vectors) = 3
  /\ asking.k = 2
  /\ Len(asking.response.contexts) = 2
  /\ Uncut[2].distance.num = Uncut[3].distance.num
  /\ Uncut[1].distance.num < Uncut[2].distance.num
  /\ asking.response.contexts[1].id = 3

\* ------------------------------------------------------------------------
\* C23: in one process pipeline() is called at most once, and every call of
\* embed computes its vectors with that one instance, however the calls
\* interleave.
C23_EmbedderCreatedOnce ==
  /\ embedding.created <= 1
  /\ \A c, d \in DOMAIN embedding.calls :
        Cardinality(embedding.calls[c].used \cup embedding.calls[d].used) <= 1

\* ------------------------------------------------------------------------
\* The records of a source, in the order they were emitted.
RecordsOf(meta, source) ==
  LET from(record) == record.source = source
  IN  SelectSeq(meta, from)

\* C24: in vectors.json, docs.json and meta.json no chunk id occurs twice,
\* and the records of each source carry the chunkIndex values 0, 1, ..., n - 1
\* in that order, n being the totalChunks recorded on each of them.
C24_IdsAndChunkIndexes ==
  LET meta == metaFile.records
  IN  /\ NoDups(vectorsFile.ids)
      /\ \A i, j \in DOMAIN docsFile.map :
            i # j => docsFile.map[i].metadata.id # docsFile.map[j].metadata.id
      /\ \A i, j \in DOMAIN meta : i # j => meta[i].id # meta[j].id
      /\ \A f \in SourcesOf(meta) :
            LET records == RecordsOf(meta, f)
            IN  \A i \in DOMAIN records :
                  /\ records[i].chunkIndex = i - 1
                  /\ records[i].totalChunks = Len(records)
      /\ \A k \in DOMAIN docsFile.map :
            docsFile.map[k].metadata.chunkIndex \in 0..(docsFile.map[k].metadata.totalChunks - 1)

\* A written index of three sources, one of them in two chunks that are not
\* the first of the index.
C24_Witness ==
  /\ \E r \in Runs : Wrote(r)
  /\ Cardinality(SourcesOf(metaFile.records)) = 3
  /\ \E i \in DOMAIN metaFile.records :
        /\ metaFile.records[i].chunkIndex = 1
        /\ metaFile.records[i].id = 3
  /\ Len(vectorsFile.ids) = 4

\* ------------------------------------------------------------------------
\* The words of the query that count: those of 3 characters or more.
CountedWords(query) ==
  LET long(word) == WordLength[word] >= 3
  IN  SelectSeq(query, long)

\* The word is contained in some word of the text.
Matches(word, text) == \E i \in DOMAIN text : Includes(text[i], word)

\* C25: the text score of every indexed chunk is a number (no quotient has a
\* zero divisor, the empty text included), it is the score the counted words
\* alone would give, a counted word that matches no word of the chunk adds
\* nothing, and it is 0 when the query has no counted word.
C25_TextRelevance ==
  Searched =>
    \A i \in DOMAIN asking.docsMap :
      LET text    == asking.docsMap[i].text
          score   == calculateTextRelevance(asking.query, text)
          counted == CountedWords(asking.query)
          matched(word) == Matches(word, text)
      IN  /\ Len(text) >= 1
          /\ score \in Nat
          /\ score = calculateTextRelevance(counted, text)
          /\ score = calculateTextRelevance(SelectSeq(counted, matched), text)
          /\ counted = <<>> => score = 0
          /\ (score = 0) <=> (SelectSeq(counted, matched) = <<>>)

\* A query of two short words, one of them empty, over the empty text and a
\* text that holds the other short word.
C25_Witness ==
  /\ Searched
  /\ asking.query = <<"ab", "">>
  /\ Len(asking.docsMap) = 2
  /\ asking.docsMap[1].text = <<"">>
  /\ asking.docsMap[2].text = <<"ab", "plan", "plan">>

\* ------------------------------------------------------------------------
\* C26: once a full run has completed with no change to ./docs since it
\* began, a name that is no longer in ./docs has no chunk in vectors.json,
\* docs.json or meta.json, and the status check does not list it as deleted.
C26_RemovedFileLeavesIndex ==
  \A r \in Runs :
    /\ Completed(r) /\ runs[r].target = "*" /\ runs[r].outcome \in {"written", "skipped"}
    /\ QuietSince(r)
    => \A f \in Sources \ DOMAIN docsDir :
         /\ f \notin SourcesOf(loadMeta(metaFile))
         /\ \A k \in DOMAIN docsFile.map : docsFile.map[k].metadata.source # f
         /\ f \notin SeqToSet(StatusNow.deleted)

\* ------------------------------------------------------------------------
\* C27: when a call of saveVectorStore completes, vectors.json has as many
\* ids as vectors, the keys of docs.json are the ids of vectors.json, and
\* meta.json holds one record per id, in the order of the ids, which are
\* 1 to N.
C27_ArtifactsAgree ==
  [][\A r \in Runs :
       runs[r].pc = "wroteDocs" /\ runs'[r].pc = "done" /\ runs'[r].outcome = "written" =>
         /\ Len(vectorsFile'.ids) = Len(vectorsFile'.vectors)
         /\ DOMAIN docsFile'.map = SeqToSet(vectorsFile'.ids)
         /\ Len(metaFile'.records) = Len(vectorsFile'.ids)
         /\ \A i \in DOMAIN vectorsFile'.ids :
               /\ vectorsFile'.ids[i] = i
               /\ metaFile'.records[i].id = i]_vars

\* ------------------------------------------------------------------------
\* C28: every chunk has a text that is not empty and holds at least one
\* sentence of the input.
C28_ChunksNotEmpty ==
  chunking.done =>
    \A k \in DOMAIN chunking.chunks :
      /\ chunking.chunks[k].text # <<>>
      /\ \E i \in DOMAIN chunking.chunks[k].text : chunking.chunks[k].text[i].kind = "tok"

\* ------------------------------------------------------------------------
\* The call has returned, and the last chunk of a text that is not empty ends
\* at the last token.
ReturnedToLastToken ==
  /\ tokenChunking.pc = "returned"
  /\ tokenChunking.length > 0 =>
        /\ tokenChunking.chunks # <<>>
        /\ tokenChunking.chunks[Len(tokenChunking.chunks)].end = tokenChunking.length

\* C29: every call of chunkText returns, overlapTokens >= maxTokens
\* included, with a last chunk that ends at the last token of the text.
C29_ChunkTextTerminates == <>ReturnedToLastToken

\* ------------------------------------------------------------------------
\* The cosine similarity of the query to chunk id, and the chunk's text score.
CosineOf(id) == cosSim(EmbeddingOf(asking.query), asking.vectors[id]).val

TextScoreOf(id) == calculateTextRelevance(asking.query, asking.docsMap[id].text)

\* C30: when all the indexed chunks have the same text score, the results
\* are the chunks of highest cosine similarity in descending order of it.
C30_EqualTextScoresRankByCosine ==
  Searched /\ (\A i, j \in DOMAIN asking.vectors : TextScoreOf(i) = TextScoreOf(j)) =>
    LET contexts == asking.response.contexts
        returned == {contexts[i].id : i \in DOMAIN contexts}
    IN  /\ \A i, j \in DOMAIN contexts :
              i < j => CosineOf(contexts[i].id) >= CosineOf(contexts[j].id)
        /\ \A i \in DOMAIN contexts : \A id \in DOMAIN asking.vectors \ returned :
              CosineOf(contexts[i].id) >= CosineOf(id)

\* Three chunks none of which matches the query, of three different cosine
\* similarities, the best of them the second chunk; two results are asked for.
C30_Witness ==
  /\ Searched
  /\ Len(asking.vectors) = 3
  /\ \A i \in DOMAIN asking.vectors : TextScoreOf(i) = 0
  /\ asking.k = 2
  /\ Len(asking.response.contexts) = 2
  /\ asking.response.contexts[1].id = 2
  /\ CosineOf(asking.response.contexts[1].id) > CosineOf(asking.response.contexts[2].id)
  /\ \E id \in DOMAIN asking.vectors :
        CosineOf(id) < CosineOf(asking.response.contexts[2].id)

====
